---- MODULE Spec2Model ----
(***************************************************************************)
(* pydynamic: a field registry (FieldManager), constraint resolution       *)
(* (get_field_constraints) and a code generator (ModelGenerator) that      *)
(* turns the registry into the source text of a pydantic model.            *)
(* The repository ships the core twice: src/app.py (the Streamlit page     *)
(* with its own copy of the classes) and src/utils.py (the same classes    *)
(* with an example-usage line).  variant says which copy is running.       *)
(* Text is modelled as TLA+ strings: an f-string is a concatenation (\o),  *)
(* "".join is the concatenation of the list.                               *)
(***************************************************************************)
EXTENDS Integers, Sequences, FiniteSets, TLC

VARIABLES
    variant,                \* "app" (src/app.py) or "utils" (src/utils.py)
    probe_type,             \* the base type the type-probing inputs of this run use
    field_data,             \* st.session_state.field_data: list of field dicts
    edit_index,             \* st.session_state.edit_index: None or an index
    custom_validations,     \* st.session_state.custom_validations
    model_code,             \* the text generate_code returned last (None before)
    last,                   \* the last call or UI event: [op, index, raised]
    submitted,              \* history of the direct calls: for each position of
                            \* field_data, what the caller submitted for it
    entered                 \* history of the page: the pairs submitted through Add
                            \* Validation in add mode since the last Add Field or
                            \* Update Field confirmation (empty in edit mode, which
                            \* only an Update Field confirmation leaves)

vars == <<variant, probe_type, field_data, edit_index, custom_validations,
          model_code, last, submitted, entered>>

None == "None"

(***************************************************************************)
(* Bounds.                                                                 *)
(***************************************************************************)
MaxFields == 2

MaxValidations == 2

(***************************************************************************)
(* Python's str and list operations.                                       *)
(***************************************************************************)
Char(s, i) == SubSeq(s, i, i)

StartsWith(s, p) == Len(s) >= Len(p) /\ SubSeq(s, 1, Len(p)) = p

EndsWith(s, p) == Len(s) >= Len(p) /\ SubSeq(s, Len(s) - Len(p) + 1, Len(s)) = p

\* str.find(sub, start): the first position >= from where sub occurs, 0 if none
Find(s, sub, from) ==
    LET hits == {i \in from..(Len(s) - Len(sub) + 1) : SubSeq(s, i, i + Len(sub) - 1) = sub}
    IN  IF hits = {} THEN 0 ELSE CHOOSE i \in hits : \A j \in hits : i <= j

RECURSIVE Join(_, _)
\* sep.join(parts)
Join(parts, sep) ==
    IF parts = <<>> THEN ""
    ELSE IF Len(parts) = 1 THEN parts[1]
    ELSE parts[1] \o sep \o Join(Tail(parts), sep)

UpperCase == "ABCDEFGHIJKLMNOPQRSTUVWXYZ"

LowerCase == "abcdefghijklmnopqrstuvwxyz"

RECURSIVE lower(_)
\* str.lower()
lower(s) ==
    IF s = "" THEN ""
    ELSE LET c == Char(s, 1)
             u == Find(UpperCase, c, 1)
         IN  (IF u = 0 THEN c ELSE Char(LowerCase, u)) \o lower(SubSeq(s, 2, Len(s)))

RECURSIVE replace(_, _, _)
\* str.replace(old, new): every non-overlapping occurrence, left to right
replace(s, old, new) ==
    LET at == Find(s, old, 1)
    IN  IF at = 0 THEN s
        ELSE SubSeq(s, 1, at - 1) \o new
             \o replace(SubSeq(s, at + Len(old), Len(s)), old, new)

\* repr(v) of a number a number_input returned
repr(v) == ToString(v)

\* dict.get(key, default) on a mapping kept as its items in iteration order
get(mapping, key, default) ==
    IF \E i \in 1..Len(mapping) : mapping[i][1] = key
    THEN mapping[CHOOSE i \in 1..Len(mapping) : mapping[i][1] = key][2]
    ELSE default

\* list.pop(index) for 0 <= index < len(list), as the list that remains
pop(list, index) == SubSeq(list, 1, index) \o SubSeq(list, index + 2, Len(list))

\* list[index] = value for 0 <= index < len(list)
setitem(list, index, value) == [list EXCEPT ![index + 1] = value]

(***************************************************************************)
(* FieldManager.type_mapping: the nine base types, in the selectbox order. *)
(***************************************************************************)
type_mapping == <<"str", "int", "float", "bool", "date", "datetime", "dict", "list", "time">>

BaseTypes == {type_mapping[i] : i \in 1..Len(type_mapping)}

Variants == {"app", "utils"}

(***************************************************************************)
(* get_field_constraints.  w holds what the widgets return: the numbers of *)
(* the number_inputs and the state of the Nullable checkbox.               *)
(***************************************************************************)
DefaultWidgets ==
    [min_length |-> 0, max_length |-> 100, gt |-> 0, lt |-> 100,
     max_digits |-> 10, decimal_places |-> 2, nullable |-> FALSE]

get_field_constraints_app(field_type, w) ==
    IF field_type = "str"
    THEN <<<<"min_length", w.min_length>>, <<"max_length", w.max_length>>,
           <<"nullable", w.nullable>>>>
    ELSE IF field_type \in {"int", "float"}
    THEN <<<<"gt", w.gt>>, <<"lt", w.lt>>>>
         \o (IF field_type = "float"
             THEN <<<<"max_digits", w.max_digits>>, <<"decimal_places", w.decimal_places>>>>
             ELSE <<>>)
         \o <<<<"nullable", w.nullable>>>>
    ELSE IF field_type \in {"date", "datetime", "time"}
    THEN <<<<"nullable", w.nullable>>>>
    ELSE IF field_type = "dict"
    THEN <<<<"nullable", w.nullable>>>>
    ELSE IF field_type = "list"
    THEN <<<<"nullable", w.nullable>>>>
    ELSE <<>>

get_field_constraints_utils(field_type, w) ==
    IF field_type \in {"str", "Optional[str]"}
    THEN <<<<"min_length", w.min_length>>, <<"max_length", w.max_length>>>>
    ELSE IF field_type \in {"int", "Optional[int]", "float", "Optional[float]"}
    THEN <<<<"gt", w.gt>>, <<"lt", w.lt>>>>
         \o (IF field_type \in {"float", "Optional[float]"}
             THEN <<<<"max_digits", w.max_digits>>, <<"decimal_places", w.decimal_places>>>>
             ELSE <<>>)
    ELSE <<>>

get_field_constraints(v, field_type, w) ==
    IF v = "app" THEN get_field_constraints_app(field_type, w)
    ELSE get_field_constraints_utils(field_type, w)

(***************************************************************************)
(* FieldManager.  A call is given the list and returns the list it leaves. *)
(* s is the submission: field_name, field_type, field_value, constraints,  *)
(* custom_validations (app.py has no field_value and stores no "value").   *)
(***************************************************************************)
python_type(field_type, constraints) ==
    IF get(constraints, "nullable", FALSE) THEN "Optional[" \o field_type \o "]"
    ELSE field_type

field_dict(v, python_type_, s) ==
    IF v = "app"
    THEN [name |-> s.field_name, type |-> python_type_,
          constraints |-> s.constraints, custom_validations |-> s.custom_validations]
    ELSE [name |-> s.field_name, type |-> python_type_, value |-> s.field_value,
          constraints |-> s.constraints, custom_validations |-> s.custom_validations]

\* add_field with list.insert(0, ...) for list.append(...)
add_field_prepend(v, list, s) ==
    [field_data |-> <<field_dict(v, python_type(s.field_type, s.constraints), s)>> \o list,
     raised |-> None]

\* each call returns what it leaves in the list and what it raises to its caller
add_field(v, list, s) ==
    [field_data |-> Append(list, field_dict(v, python_type(s.field_type, s.constraints), s)),
     raised |-> None]

\* remove_field without the lower bound of its guard: pop(-1) takes the last element
remove_field_no_lower_bound(list, index) ==
    IF index < Len(list)
    THEN IF index >= 0 THEN [field_data |-> pop(list, index), raised |-> None]
         ELSE IF Len(list) + index >= 0
         THEN [field_data |-> pop(list, Len(list) + index), raised |-> None]
         ELSE [field_data |-> list, raised |-> "IndexError"]
    ELSE [field_data |-> list, raised |-> None]

remove_field(list, index) ==
    IF 0 <= index /\ index < Len(list)
    THEN [field_data |-> pop(list, index), raised |-> None]
    ELSE [field_data |-> list, raised |-> None]

\* update_field that updates the stored dict's name, type and constraints in place
update_field_app_in_place(list, index, s) ==
    IF 0 <= index /\ index < Len(list)
    THEN [field_data |->
            setitem(list, index,
                    [list[index + 1] EXCEPT !.name = s.field_name, !.type = s.field_type,
                                            !.constraints = s.constraints]),
          raised |-> None]
    ELSE [field_data |-> list, raised |-> None]

\* src/app.py stores field_type as it was passed
update_field_app(list, index, s) ==
    IF 0 <= index /\ index < Len(list)
    THEN [field_data |-> setitem(list, index, field_dict("app", s.field_type, s)),
          raised |-> None]
    ELSE [field_data |-> list, raised |-> None]

\* update_field without its guard: list[index] = ... raises on a bad index
update_field_utils_unguarded(list, index, s) ==
    LET new == field_dict("utils", python_type(s.field_type, s.constraints), s)
    IN  IF 0 <= index /\ index < Len(list)
        THEN [field_data |-> setitem(list, index, new), raised |-> None]
        ELSE IF index < 0 /\ Len(list) + index >= 0
        THEN [field_data |-> setitem(list, Len(list) + index, new), raised |-> None]
        ELSE [field_data |-> list, raised |-> "IndexError"]

\* src/utils.py wraps a nullable field's type as add_field does
update_field_utils(list, index, s) ==
    IF 0 <= index /\ index < Len(list)
    THEN [field_data |->
            setitem(list, index,
                    field_dict("utils", python_type(s.field_type, s.constraints), s)),
          raised |-> None]
    ELSE [field_data |-> list, raised |-> None]

update_field(v, list, index, s) ==
    IF v = "app" THEN update_field_app(list, index, s)
    ELSE update_field_utils(list, index, s)

(***************************************************************************)
(* ModelGenerator.generate_code.                                           *)
(***************************************************************************)
\* the argument list without its filter: nullable is emitted like any other key
constraint_items_unfiltered(constraints) ==
    [i \in 1..Len(constraints) |-> constraints[i][1] \o "=" \o ToString(constraints[i][2])]

\* [f"{k}={v!r}" for k, v in constraints.items() if k != "nullable"]
RECURSIVE constraint_items(_)
constraint_items(constraints) ==
    IF constraints = <<>> THEN <<>>
    ELSE LET k == constraints[1][1]
             rest == constraint_items(Tail(constraints))
         IN  IF k # "nullable" THEN <<k \o "=" \o repr(constraints[1][2])>> \o rest
             ELSE rest

field_definition(field) ==
    "    " \o field.name \o ": " \o field.type \o " = Field("
    \o Join(constraint_items(field.constraints), ", ") \o ")\n"

\* the validator block numbered as enumerate() does without start=1
validator_lines_zero_based(field_name, idx, pair) ==
    << "    @field_validator('" \o field_name \o "')\n",
       "    def validate_" \o field_name \o "_" \o ToString(idx - 1) \o "(cls, value):\n",
       "        if " \o pair[1] \o ":\n",
       "            raise ValueError('" \o pair[2] \o "')\n",
       "        return value\n\n" >>

\* the validator of the idx-th (logic, error_message) pair, as the lines of its block
validator_lines(field_name, idx, pair) ==
    << "    @field_validator('" \o field_name \o "')\n",
       "    def validate_" \o field_name \o "_" \o ToString(idx) \o "(cls, value):\n",
       "        if " \o pair[1] \o ":\n",
       "            raise ValueError('" \o pair[2] \o "')\n",
       "        return value\n\n" >>

RECURSIVE field_validators(_, _, _)
\* for idx, (logic, error_message) in enumerate(custom_validations, start=1)
field_validators(field_name, validations, idx) ==
    IF idx > Len(validations) THEN <<>>
    ELSE validator_lines(field_name, idx, validations[idx])
         \o field_validators(field_name, validations, idx + 1)

RECURSIVE field_lines(_)
\* for field in field_data: the definition line, then the validators
field_lines(list) ==
    IF list = <<>> THEN <<>>
    ELSE <<field_definition(list[1])>>
         \o field_validators(list[1].name, list[1].custom_validations, 1)
         \o field_lines(Tail(list))

\* one keyword argument of the example: quoted when the stored type is "str"
example_param(field) ==
    IF field.type = "str" THEN field.name \o "=\"" \o field.value \o "\""
    ELSE field.name \o "=" \o field.value

example_usage(model_name, list) ==
    << "\n\n# Example Usage\n",
       replace(lower(model_name), "model", "") \o " = " \o model_name \o "("
       \o Join([i \in 1..Len(list) |-> example_param(list[i])], ", ") \o ")\n" >>

code_header(model_name) ==
    << "from pydantic import BaseModel, Field, field_validator\n",
       "from typing import Optional, List, Dict\n",
       "from datetime import date, datetime, time\n\n",
       "class " \o model_name \o "(BaseModel):\n" >>

\* src/app.py: the header, the fields and their validators
generate_code_app(model_name, list) ==
    Join(code_header(model_name) \o field_lines(list), "")

\* src/utils.py: the same, then the example usage
generate_code_utils(model_name, list) ==
    Join(code_header(model_name) \o field_lines(list)
         \o example_usage(model_name, list), "")

generate_code(v, model_name, list) ==
    IF v = "app" THEN generate_code_app(model_name, list)
    ELSE generate_code_utils(model_name, list)

(***************************************************************************)
(* The inputs of one run.  Type probes submit the run's probe_type with    *)
(* every constraint mapping get_field_constraints can return for it (in    *)
(* either copy, Nullable ticked or not) and one that holds nullable first; *)
(* validation probes submit an int field with one or two validations.      *)
(***************************************************************************)
Names == {"age", "tag"}

ModelNames == {"User", "UserModel"}

WidgetInputs ==
    {DefaultWidgets, [DefaultWidgets EXCEPT !.nullable = TRUE],
     [DefaultWidgets EXCEPT !.lt = 150]}

ValidationPairs == {<<"value > 150", "Age too high">>, <<"value < 0", "Negative">>}

ValidationInputs ==
    {<<<<"value > 150", "Age too high">>>>,
     <<<<"value < 0", "Negative">>, <<"value > 150", "Age too high">>>>}

ConstraintInputs(field_type) ==
    {get_field_constraints(v, field_type, w) : v \in Variants, w \in WidgetInputs}
    \cup {<<<<"nullable", TRUE>>>>
          \o get_field_constraints("utils", field_type, DefaultWidgets)}

TypeProbes(field_type) ==
    [field_name : {"age"}, field_type : {field_type}, field_value : {"Alice"},
     constraints : ConstraintInputs(field_type), custom_validations : {<<>>}]

ValidationProbes ==
    [field_name : Names, field_type : {"int"}, field_value : {"30"},
     constraints : {<<<<"gt", 0>>, <<"lt", 150>>>>},
     custom_validations : ValidationInputs]

FieldInputs(field_type) == TypeProbes(field_type) \cup ValidationProbes

Indices == -1..MaxFields

NoEdit == <<>>

(***************************************************************************)
(* The registry and the generator called directly (both copies).           *)
(***************************************************************************)
Init ==
    /\ variant \in Variants
    /\ probe_type \in BaseTypes
    /\ field_data = <<>>
    /\ edit_index = NoEdit
    /\ custom_validations = <<>>
    /\ model_code = None
    /\ last = [op |-> "init", raised |-> None]
    /\ submitted = <<>>
    /\ entered = <<>>

AddField(s) ==
    /\ Len(field_data) < MaxFields
    /\ LET r == add_field(variant, field_data, s)
       IN  /\ field_data' = r.field_data
           /\ last' = [op |-> "add_field", size |-> Len(field_data), raised |-> r.raised]
    /\ submitted' = Append(submitted, s)
    /\ model_code' = None
    /\ UNCHANGED <<variant, probe_type, edit_index, custom_validations, entered>>

RemoveField(index) ==
    /\ LET r == remove_field(field_data, index)
       IN  /\ field_data' = r.field_data
           /\ last' = [op |-> "remove_field", index |-> index,
                       size |-> Len(field_data), raised |-> r.raised]
    /\ submitted' = IF 0 <= index /\ index < Len(submitted)
                    THEN pop(submitted, index) ELSE submitted
    /\ model_code' = None
    /\ UNCHANGED <<variant, probe_type, edit_index, custom_validations, entered>>

UpdateField(index, s) ==
    /\ LET r == update_field(variant, field_data, index, s)
       IN  /\ field_data' = r.field_data
           /\ last' = [op |-> "update_field", index |-> index,
                       size |-> Len(field_data), raised |-> r.raised]
    /\ submitted' = IF 0 <= index /\ index < Len(submitted)
                    THEN setitem(submitted, index, s) ELSE submitted
    /\ model_code' = None
    /\ UNCHANGED <<variant, probe_type, edit_index, custom_validations, entered>>

GetFieldConstraints(w) ==
    /\ last' = [op |-> "get_field_constraints", field_type |-> probe_type, widgets |-> w,
                returned |-> get_field_constraints(variant, probe_type, w)]
    /\ model_code' = None
    /\ UNCHANGED <<variant, probe_type, field_data, edit_index, custom_validations,
                   submitted, entered>>

GenerateCode(model_name) ==
    /\ model_code' = generate_code(variant, model_name, field_data)
    /\ last' = [op |-> "generate_code", model_name |-> model_name]
    /\ UNCHANGED <<variant, probe_type, field_data, edit_index, custom_validations,
                   submitted, entered>>

Next ==
    \/ \E s \in FieldInputs(probe_type) : AddField(s)
    \/ \E index \in Indices : RemoveField(index)
    \/ \E index \in Indices, s \in FieldInputs(probe_type) : UpdateField(index, s)
    \/ \E w \in WidgetInputs : GetFieldConstraints(w)
    \/ \E model_name \in ModelNames : GenerateCode(model_name)

Spec == Init /\ [][Next]_vars

\* only add_field mutates the registry: "starting from an empty registry, N adds"
NextAdd ==
    \/ \E s \in FieldInputs(probe_type) : AddField(s)
    \/ \E model_name \in ModelNames : GenerateCode(model_name)

SpecAdd == Init /\ [][NextAdd]_vars

(***************************************************************************)
(* The Streamlit page, src/app.py main().  A click reruns the script from  *)
(* the top with that button set; the handler's st.rerun() runs it once     *)
(* more.  An action is the click's run and the rerun it asks for.  A run   *)
(* that raises renders nothing below the raising line, so no button of the *)
(* page can be clicked afterwards.                                         *)
(***************************************************************************)
UIModelName == "UserModel"

UINames == {"", "age", "tag"}

\* what the page's widgets hold at a click: the defaults, Nullable ticked or not
UIWidgetInputs == {DefaultWidgets, [DefaultWidgets EXCEPT !.nullable = TRUE]}

\* the top of the script down to the validation form: what it raises, and the
\* list st.session_state.custom_validations is bound to afterwards
script_top(list, edit, validations) ==
    IF edit # NoEdit
    THEN IF ~(0 <= edit[1] /\ edit[1] < Len(list))
         THEN [raised |-> "IndexError", custom_validations |-> validations]
         ELSE IF list[edit[1] + 1].type \notin BaseTypes
         THEN [raised |-> "ValueError", custom_validations |-> validations]
         ELSE [raised |-> None,
               custom_validations |-> list[edit[1] + 1].custom_validations]
    ELSE IF list # <<>> /\ list[Len(list)].type \notin BaseTypes
         THEN [raised |-> "ValueError", custom_validations |-> validations]
         ELSE [raised |-> None, custom_validations |-> validations]

\* the bottom of the script: the code shown when there is a name and a field
script_code(list) ==
    IF UIModelName # "" /\ list # <<>> THEN generate_code_app(UIModelName, list)
    ELSE None

\* a whole run of the script on the session the handler left
Rerun(op, list, edit, validations) ==
    LET top == script_top(list, edit, validations)
    IN  /\ field_data' = list
        /\ edit_index' = edit
        /\ custom_validations' = top.custom_validations
        /\ model_code' = IF top.raised = None THEN script_code(list) ELSE None
        /\ last' = [op |-> op, raised |-> top.raised]
        /\ UNCHANGED <<variant, probe_type, submitted>>

PageLive == last.raised = None

\* in edit mode the session's list is the edited field's own list
append_validation(list, edit, pair) ==
    IF edit = NoEdit THEN list
    ELSE [list EXCEPT ![edit[1] + 1].custom_validations = Append(@, pair)]

AddValidation(pair) ==
    /\ PageLive
    /\ Len(custom_validations) < MaxValidations
    /\ pair[1] # "" /\ pair[2] # ""
    /\ field_data' = append_validation(field_data, edit_index, pair)
    /\ custom_validations' = Append(custom_validations, pair)
    /\ model_code' = script_code(field_data')
    /\ last' = [op |-> "Add Validation", raised |-> None]
    /\ entered' = IF edit_index = NoEdit THEN Append(entered, pair) ELSE <<>>
    /\ UNCHANGED <<variant, probe_type, edit_index, submitted>>

RemoveValidation(idx) ==
    /\ PageLive
    /\ edit_index # NoEdit
    /\ idx \in 0..(Len(custom_validations) - 1)
    /\ Rerun("Remove Validation",
             [field_data EXCEPT ![edit_index[1] + 1].custom_validations = pop(@, idx)],
             edit_index, pop(custom_validations, idx))
    /\ entered' = <<>>

ClickAddField(field_name_input, field_type_input, w) ==
    /\ PageLive
    /\ edit_index = NoEdit
    /\ Len(field_data) < MaxFields
    /\ entered' = IF field_name_input # "" THEN <<>> ELSE entered
    /\ LET constraints == get_field_constraints_app(field_type_input, w)
           s == [field_name |-> field_name_input, field_type |-> field_type_input,
                 field_value |-> "", constraints |-> constraints,
                 custom_validations |-> custom_validations]
       IN  IF field_name_input # ""
           THEN Rerun("Add Field", add_field("app", field_data, s).field_data,
                      edit_index, custom_validations)
           ELSE /\ last' = [op |-> "Add Field", raised |-> None]
                /\ UNCHANGED <<variant, probe_type, field_data, edit_index,
                               custom_validations, model_code, submitted>>

ClickUpdateField(field_name_input, field_type_input, w) ==
    /\ PageLive
    /\ edit_index # NoEdit
    /\ entered' = <<>>
    /\ LET constraints == get_field_constraints_app(field_type_input, w)
           s == [field_name |-> field_name_input, field_type |-> field_type_input,
                 field_value |-> "", constraints |-> constraints,
                 custom_validations |-> custom_validations]
       IN  IF field_name_input # ""
           THEN Rerun("Update Field",
                      update_field_app(field_data, edit_index[1], s).field_data,
                      NoEdit, <<>>)
           ELSE /\ last' = [op |-> "Update Field", raised |-> None]
                /\ UNCHANGED <<variant, probe_type, field_data, edit_index,
                               custom_validations, model_code, submitted>>

ClickEditField(index) ==
    /\ PageLive
    /\ index \in 0..(Len(field_data) - 1)
    /\ Rerun("Edit Field", field_data, <<index>>, custom_validations)
    /\ entered' = <<>>

ClickRemoveField(index) ==
    /\ PageLive
    /\ index \in 0..(Len(field_data) - 1)
    /\ Rerun("Remove Field", remove_field(field_data, index).field_data,
             edit_index, custom_validations)
    /\ entered' = IF edit_index = NoEdit THEN entered ELSE <<>>

InitUI == Init /\ variant = "app"

NextUI ==
    \/ \E pair \in ValidationPairs : AddValidation(pair)
    \/ \E idx \in 0..(MaxValidations - 1) : RemoveValidation(idx)
    \/ \E n \in UINames, w \in UIWidgetInputs : ClickAddField(n, probe_type, w)
    \/ \E n \in UINames, w \in UIWidgetInputs : ClickUpdateField(n, probe_type, w)
    \/ \E index \in 0..(MaxFields - 1) : ClickEditField(index)
    \/ \E index \in 0..(MaxFields - 1) : ClickRemoveField(index)

SpecUI == InitUI /\ [][NextUI]_vars

(***************************************************************************)
(* Reading the generated text back: its lines, the field-declaration       *)
(* lines among them and the parts of a declaration line.                   *)
(***************************************************************************)
\* str.split(sep)
Split(s, sep) ==
    LET pos == {i \in 1..(Len(s) - Len(sep) + 1) : SubSeq(s, i, i + Len(sep) - 1) = sep}
        n == Cardinality(pos)
        nth(k) == CHOOSE p \in pos : Cardinality({q \in pos : q < p}) = k - 1
    IN  [k \in 1..(n + 1) |->
            SubSeq(s, IF k = 1 THEN 1 ELSE nth(k - 1) + Len(sep),
                      IF k = n + 1 THEN Len(s) ELSE nth(k) - 1)]

TextLines(text) == Split(text, "\n")

\* "    name: type = Field(args)": indented by four, not a decorator, not a def
IsDeclaration(line) ==
    /\ StartsWith(line, "    ")
    /\ Len(line) > 4 /\ Char(line, 5) \notin {" ", "@"}
    /\ ~StartsWith(line, "    def ")
    /\ Find(line, ": ", 5) > 0 /\ Find(line, " = Field(", 5) > 0 /\ EndsWith(line, ")")

\* the numbers of the declaration lines, in the order of the text
DeclarationAt(lines) ==
    LET at == {k \in 1..Len(lines) : IsDeclaration(lines[k])}
    IN  [i \in 1..Cardinality(at) |->
            CHOOSE k \in at : Cardinality({j \in at : j < k}) = i - 1]

DeclaredName(line) == SubSeq(line, 5, Find(line, ": ", 5) - 1)

DeclaredType(line) ==
    SubSeq(line, Find(line, ": ", 5) + 2, Find(line, " = Field(", 5) - 1)

DeclaredArgs(line) ==
    LET inside == SubSeq(line, Find(line, " = Field(", 5) + 9, Len(line) - 1)
    IN  IF inside = "" THEN <<>> ELSE Split(inside, ", ")

ArgKey(arg) == SubSeq(arg, 1, Find(arg, "=", 1) - 1)

\* the keys of a mapping other than nullable, in iteration order
RECURSIVE OtherKeys(_)
OtherKeys(mapping) ==
    IF mapping = <<>> THEN <<>>
    ELSE (IF mapping[1][1] = "nullable" THEN <<>> ELSE <<mapping[1][1]>>)
         \o OtherKeys(Tail(mapping))

InRange(index, size) == 0 <= index /\ index < size

Generated == last.op = "generate_code"

C2_RemoveField ==
    [][last'.op = "remove_field" =>
          /\ last'.raised = None
          /\ last'.size = Len(field_data)
          /\ IF InRange(last'.index, Len(field_data))
             THEN /\ Len(field_data') = Len(field_data) - 1
                  /\ \A k \in 1..Len(field_data') :
                        field_data'[k] = IF k <= last'.index THEN field_data[k]
                                         ELSE field_data[k + 1]
             ELSE field_data' = field_data]_vars

C2_Witness ==
    /\ last.op = "remove_field" /\ last.size = 2 /\ last.index = 0
    /\ Len(field_data) = 1

(***************************************************************************)
(* C9.  update_field with an index in [0, len) replaces the element at the *)
(* index wholesale with the submission (its name, constraints, validations *)
(* and example value; its type is the submitted type, bare or wrapped in   *)
(* Optional) and changes nothing else: same length, other elements as      *)
(* before.                                                                 *)
(***************************************************************************)
C9_UpdateField ==
    [][(last'.op = "update_field" /\ InRange(last'.index, Len(field_data))) =>
          LET at == last'.index + 1
              s == submitted'[at]
              new == field_data'[at]
          IN  /\ Len(field_data') = Len(field_data)
              /\ \A k \in 1..Len(field_data) : k # at => field_data'[k] = field_data[k]
              /\ DOMAIN new = IF variant = "app"
                              THEN {"name", "type", "constraints", "custom_validations"}
                              ELSE {"name", "type", "value", "constraints",
                                    "custom_validations"}
              /\ new.name = s.field_name
              /\ new.type \in {s.field_type, "Optional[" \o s.field_type \o "]"}
              /\ new.constraints = s.constraints
              /\ new.custom_validations = s.custom_validations
              /\ variant = "utils" => new.value = s.field_value]_vars

C9_Witness ==
    /\ last.op = "update_field" /\ last.index = 1 /\ last.size = 2
    /\ field_data[2].custom_validations = <<>>
    /\ field_data[1].custom_validations # <<>>

(***************************************************************************)
(* C3.  Claim: for every field stored by add_field or update_field, the    *)
(* declared type in its generated declaration line is the submitted base   *)
(* type when it was submitted with nullable false, and "Optional[" + base  *)
(* type + "]" when it was submitted with nullable true.                    *)
(***************************************************************************)
C3_DeclaredType ==
    Generated =>
        LET lines == TextLines(model_code)
            at == DeclarationAt(lines)
        IN  /\ Len(at) = Len(submitted)
            /\ \A i \in 1..Len(submitted) :
                  DeclaredType(lines[at[i]]) =
                      IF get(submitted[i].constraints, "nullable", FALSE)
                      THEN "Optional[" \o submitted[i].field_type \o "]"
                      ELSE submitted[i].field_type

(***************************************************************************)
(* C4.  The argument list inside Field(...) of a field's declaration line  *)
(* has no entry for the key nullable and has every other key of the        *)
(* field's constraint mapping exactly once, in the mapping's order.        *)
(***************************************************************************)
C4_ConstraintArguments ==
    Generated =>
        LET lines == TextLines(model_code)
            at == DeclarationAt(lines)
        IN  /\ Len(at) = Len(field_data)
            /\ \A i \in 1..Len(field_data) :
                  LET args == DeclaredArgs(lines[at[i]])
                  IN  [k \in 1..Len(args) |-> ArgKey(args[k])]
                          = OtherKeys(field_data[i].constraints)

C4_Witness ==
    /\ Generated
    /\ \E i \in 1..Len(field_data) :
          /\ Len(field_data[i].constraints) = 3
          /\ field_data[i].constraints[1][1] = "nullable"

(***************************************************************************)
(* C5.  From the empty registry, after N add_field calls generate_code     *)
(* gives exactly N declaration lines, the i-th being the line of the i-th  *)
(* added field: its name, its declared type, its constraint arguments.     *)
(***************************************************************************)
C5_AddedInOrder ==
    Generated =>
        LET lines == TextLines(model_code)
            at == DeclarationAt(lines)
        IN  /\ Len(at) = Len(submitted)
            /\ \A i \in 1..Len(submitted) :
                  LET args == DeclaredArgs(lines[at[i]])
                  IN  /\ DeclaredName(lines[at[i]]) = submitted[i].field_name
                      /\ DeclaredType(lines[at[i]]) =
                            IF get(submitted[i].constraints, "nullable", FALSE)
                            THEN "Optional[" \o submitted[i].field_type \o "]"
                            ELSE submitted[i].field_type
                      /\ [k \in 1..Len(args) |-> ArgKey(args[k])]
                            = OtherKeys(submitted[i].constraints)

C5_Witness ==
    /\ Generated /\ Len(submitted) = 2
    /\ submitted[1].field_name = submitted[2].field_name
    /\ submitted[1].field_type # submitted[2].field_type

(***************************************************************************)
(* C6.  A field with K custom validations gets exactly K validator blocks, *)
(* right after its declaration line and before the next declaration; the   *)
(* j-th is tagged with the field's name, is named validate_{name}_{j} and  *)
(* carries the j-th submitted (logic, message) pair.                       *)
(***************************************************************************)
C6_ValidatorBlocks ==
    Generated =>
        LET lines == TextLines(model_code)
            at == DeclarationAt(lines)
        IN  /\ Len(at) = Len(submitted)
            /\ \A i \in 1..Len(submitted) :
                  LET name == submitted[i].field_name
                      pairs == submitted[i].custom_validations
                      from == at[i]
                      to == IF i < Len(at) THEN at[i + 1] ELSE Len(lines) + 1
                  IN  /\ Cardinality({k \in (from + 1)..(to - 1) :
                                        StartsWith(lines[k], "    @field_validator(")})
                            = Len(pairs)
                      /\ to > from + 6 * Len(pairs)
                      /\ \A j \in 1..Len(pairs) :
                            LET b == from + 6 * (j - 1)
                            IN  /\ lines[b + 1] = "    @field_validator('" \o name \o "')"
                                /\ lines[b + 2] = "    def validate_" \o name \o "_"
                                                  \o ToString(j) \o "(cls, value):"
                                /\ lines[b + 3] = "        if " \o pairs[j][1] \o ":"
                                /\ lines[b + 4] = "            raise ValueError('"
                                                  \o pairs[j][2] \o "')"
                                /\ lines[b + 5] = "        return value"
                                /\ lines[b + 6] = ""

C6_Witness ==
    /\ Generated /\ Len(field_data) = 2
    /\ Len(field_data[1].custom_validations) = 2
    /\ Len(field_data[2].custom_validations) = 1

(***************************************************************************)
(* C7.  Claim: the generated text ends with one example-construction       *)
(* statement with one keyword argument per field in declaration order,     *)
(* every string-typed field (nullable or not) having its example value in  *)
(* quotes and every other field having it unquoted.  Stated for the copy   *)
(* that emits the statement at all (src/utils.py).                         *)
(***************************************************************************)
C7_ExampleQuotesStrings ==
    (Generated /\ variant = "utils") =>
        LET lines == TextLines(model_code)
            param(s) == IF s.field_type = "str"
                        THEN s.field_name \o "=\"" \o s.field_value \o "\""
                        ELSE s.field_name \o "=" \o s.field_value
        IN  /\ Len(lines) >= 2 /\ lines[Len(lines)] = ""
            /\ EndsWith(lines[Len(lines) - 1],
                        " = " \o last.model_name \o "("
                        \o Join([i \in 1..Len(submitted) |-> param(submitted[i])], ", ")
                        \o ")")

(***************************************************************************)
(* C8.  Claim: with the widgets at their defaults, get_field_constraints   *)
(* returns for each base type exactly the keys and defaults of the table:  *)
(* str: min_length 0, max_length 100, nullable false; int: gt 0, lt 100,   *)
(* nullable false; float: those and max_digits 10, decimal_places 2;       *)
(* bool, date, datetime, time, dict, list: nullable false only.            *)
(***************************************************************************)
ConstraintTable(field_type) ==
    IF field_type = "str"
    THEN <<<<"min_length", 0>>, <<"max_length", 100>>, <<"nullable", FALSE>>>>
    ELSE IF field_type = "int"
    THEN <<<<"gt", 0>>, <<"lt", 100>>, <<"nullable", FALSE>>>>
    ELSE IF field_type = "float"
    THEN <<<<"gt", 0>>, <<"lt", 100>>, <<"nullable", FALSE>>,
           <<"max_digits", 10>>, <<"decimal_places", 2>>>>
    ELSE <<<<"nullable", FALSE>>>>

SameMapping(a, b) ==
    /\ {a[i][1] : i \in 1..Len(a)} = {b[i][1] : i \in 1..Len(b)}
    /\ Len(a) = Len(b)
    /\ \A i \in 1..Len(a) : \A j \in 1..Len(b) : a[i][1] = b[j][1] => a[i][2] = b[j][2]

C8_ConstraintTable ==
    (last.op = "get_field_constraints" /\ last.widgets = DefaultWidgets)
        => SameMapping(last.returned, ConstraintTable(last.field_type))

(***************************************************************************)
(* C10.  Claim: after any sequence of Add Field, Edit Field, Update Field  *)
(* and Remove Field events, edit_index is None or a valid index into       *)
(* field_data, so the edit-mode read field_data[edit_index] never faults.  *)
(***************************************************************************)
C10_EditIndexValid ==
    /\ edit_index = NoEdit \/ InRange(edit_index[1], Len(field_data))
    /\ last.raised # "IndexError"

(***************************************************************************)
(* C11.  Claim: the custom validations stored with a field created by Add  *)
(* Field are exactly the (logic, message) pairs submitted through Add      *)
(* Validation since the previous Add Field or Update Field confirmation,   *)
(* in submission order; validations entered for one field never appear on  *)
(* a field added later.                                                    *)
(***************************************************************************)
C11_AddedFieldValidations ==
    [][(last'.op = "Add Field" /\ Len(field_data') = Len(field_data) + 1)
          => field_data'[Len(field_data')].custom_validations = entered]_vars

====
